---- MODULE Spec2Model ----
(***************************************************************************)
(* Model of src/eagle_eye/app/static/task.js: the DOMContentLoaded         *)
(* listener that enables the submit button, and the document-level keydown *)
(* listener that maps arrow and digit keys to the inputs named             *)
(* 'assessment'.                                                           *)
(*                                                                         *)
(* Every action is one event dispatched by the browser's event loop and    *)
(* runs its listener to completion, nested synchronous dispatches          *)
(* (HTMLElement.click()) included.  The initial state is the state right   *)
(* after the script has been evaluated: both listeners are registered and  *)
(* the three module-level constants have been computed.                    *)
(***************************************************************************)
EXTENDS Integers, Sequences, FiniteSets, TLC

\* ------------------------------------------------------------------ bounds

\* Most input elements a document holds.
MaxInputs == 4

\* Most input elements outside the 'assessment' group.
MaxOther == 1

\* Most DOM mutations (insertions, removals) after the script has run.
MaxMutations == 1

\* ------------------------------------------------------------- vocabulary

Elems == 1..MaxInputs

\* No element: document.activeElement on the body, or an index past the end
\* of a collection (JavaScript's undefined).
undefined == 0

\* JavaScript numbers as parseInt yields them: an integer, or NaN when no
\* digit could be read.
Num(v) == [nan |-> FALSE, val |-> v]

NaN == [nan |-> TRUE, val |-> 0]

Names == {"assessment", "other"}

WhiteSpace == {" "}

Digits == {"0", "1", "2", "3", "4", "5", "6", "7", "8", "9"}

DigitValue(c) ==
    CASE c = "0" -> 0 [] c = "1" -> 1 [] c = "2" -> 2 [] c = "3" -> 3
      [] c = "4" -> 4 [] c = "5" -> 5 [] c = "6" -> 6 [] c = "7" -> 7
      [] c = "8" -> 8 [] c = "9" -> 9

\* KeyboardEvent.key values, as sequences of characters.
ArrowDown == <<"A", "r", "r", "o", "w", "D", "o", "w", "n">>

ArrowLeft == <<"A", "r", "r", "o", "w", "L", "e", "f", "t">>

ArrowRight == <<"A", "r", "r", "o", "w", "R", "i", "g", "h", "t">>

Shift == <<"S", "h", "i", "f", "t">>

F2 == <<"F", "2">>

\* The digit keys pressed: every digit up to one past the largest group,
\* and "9".
DigitKeys ==
    {<<c>> : c \in {d \in Digits : DigitValue(d) <= MaxInputs + 1 \/ d = "9"}}

ArrowKeys == {ArrowDown, ArrowLeft, ArrowRight}

Keys == ArrowKeys \cup DigitKeys \cup {Shift, F2}

\* ------------------------------------------------------------------ state

VARIABLES
    doc,                     \* the document's input elements, in tree order
    name,                    \* name attribute of each element
    checked,                 \* checked state of each element
    clickListeners,          \* elements holding the listener of line 24
    submitPresent,           \* whether an element with id 'submit' exists
    disabled,                \* submitButton.disabled
    loaded,                  \* DOMContentLoaded has been dispatched
    inputButtonsLength,      \* line 31
    inputButtonsHalfLength,  \* line 32
    focused,                 \* document.activeElement, or undefined
    log,                     \* number of console.log entries
    mutations,               \* DOM mutations since the script ran
    initChecked,             \* some input was checked when line 20 iterated
    clickedSinceInit,        \* a click was dispatched after DOMContentLoaded
    registered,              \* the 'assessment' group when line 30 ran
    last                     \* the event dispatched last and what it did;
                             \* repeat: it is a keydown of the key of the
                             \* keydown dispatched right before it

vars == <<doc, name, checked, clickListeners, submitPresent, disabled, loaded,
          inputButtonsLength, inputButtonsHalfLength, focused, log, mutations,
          initChecked, clickedSinceInit, registered, last>>

\* ---------------------------------------------------------------- helpers

RECURSIVE SelectSeq2(_, _)
\* The elements of s whose name attribute is nm, order kept.
SelectSeq2(s, nm) ==
    IF s = <<>> THEN <<>>
    ELSE IF name[Head(s)] = nm THEN <<Head(s)>> \o SelectSeq2(Tail(s), nm)
    ELSE SelectSeq2(Tail(s), nm)

\* document.getElementsByName('assessment'): a live collection, so it is
\* evaluated against the current document wherever it is read.
inputButtons == SelectSeq2(doc, "assessment")

\* inputButtons[i] with JavaScript's 0-based index; undefined out of range.
Item(i) ==
    IF i >= 0 /\ i < Len(inputButtons) THEN inputButtons[i + 1] ELSE undefined

\* Mutant of Floor2: Math.ceil in place of Math.floor.
Ceil2(x) == (x + 1) \div 2

\* Math.floor(x / 2) for x >= 0.
Floor2(x) == x \div 2

RECURSIVE SkipWhiteSpace(_)
SkipWhiteSpace(s) ==
    IF s # <<>> /\ Head(s) \in WhiteSpace THEN SkipWhiteSpace(Tail(s)) ELSE s

RECURSIVE ReadDigits(_, _, _)
\* Reads the longest prefix of digits of s; acc is the value so far and any
\* says whether a digit has been read.
ReadDigits(s, acc, any) ==
    IF s # <<>> /\ Head(s) \in Digits
    THEN ReadDigits(Tail(s), 10 * acc + DigitValue(Head(s)), TRUE)
    ELSE IF any THEN Num(acc) ELSE NaN

\* Mutant of parseInt: the digits are read wherever they stand in the key
\* name, so that "F2" yields 2.
parseIntAnywhere(s) == ReadDigits(SelectSeq(s, LAMBDA c : c \in Digits), 0, FALSE)

\* Mutant of parseInt: written parseInt(keyName) || 1, so that a key that
\* does not parse counts as 1.
parseIntOrOne(s) ==
    LET v == ReadDigits(SkipWhiteSpace(s), 0, FALSE)
    IN  IF v.nan \/ v.val = 0 THEN Num(1) ELSE v

\* parseInt(keyName), radix 10: leading white space is skipped, one sign is
\* read, then the longest run of digits; NaN when there is none.  It throws
\* for no string.
parseInt(s) ==
    LET t == SkipWhiteSpace(s)
        neg == t # <<>> /\ Head(t) = "-"
        u == IF t # <<>> /\ Head(t) \in {"-", "+"} THEN Tail(t) ELSE t
        v == ReadDigits(u, 0, FALSE)
    IN  IF v.nan THEN NaN ELSE IF neg THEN Num(0 - v.val) ELSE v

\* a > b and a <= b for a JavaScript number a and an integer b: false when
\* a is NaN.
Gt(a, b) == ~a.nan /\ a.val > b

Le(a, b) == ~a.nan /\ a.val <= b

\* --------------------------------------------------- DOM element behaviour

\* The checked states once element e has been activated by a click: a radio
\* of the 'assessment' group becomes the one checked radio of its group, any
\* other input is a checkbox and toggles.
CheckedAfterClick(e) ==
    IF name[e] = "assessment"
    THEN [x \in Elems |->
            IF x = e THEN TRUE
            ELSE IF name[x] = "assessment" THEN FALSE ELSE checked[x]]
    ELSE [checked EXCEPT ![e] = ~checked[e]]

\* Mutant of ListenerRuns: the click listeners are attached when the script
\* is evaluated, not when DOMContentLoaded is dispatched.
ListenerRunsAlways(e) == TRUE

\* The listener of lines 24-26 is dispatched for a click on e.
ListenerRuns(e) == e \in clickListeners

\* Mutant of DisabledAfterClick: the listener assigns
\* submitButton.disabled = !radioButton.checked, so unchecking a checkbox
\* disables the button again.
DisabledAfterClickChecked(e) ==
    IF ListenerRuns(e) /\ submitPresent
    THEN name[e] # "assessment" /\ checked[e]
    ELSE disabled

\* Mutant of DisabledAfterClick: the listener toggles the flag.
DisabledAfterClickToggle(e) ==
    IF ListenerRuns(e) /\ submitPresent THEN ~disabled ELSE disabled

\* submitButton.disabled after a click on e has been dispatched: the
\* listener of line 25 sets it to false.
DisabledAfterClick(e) ==
    IF ListenerRuns(e) /\ submitPresent THEN FALSE ELSE disabled

\* Line 25 with submitButton null: a TypeError inside the listener, which
\* the browser reports as an uncaught error.
ClickFault(e) == ListenerRuns(e) /\ ~submitPresent

\* Mutant of SyntheticClick: the click event is dispatched from a later task,
\* so its listeners have not run when click() returns.
SyntheticClickDeferred(e) ==
    [checked |-> CheckedAfterClick(e), disabled |-> disabled, fault |-> FALSE]

\* inputButton.click() (lines 42, 47, 52, 60): the element is activated and
\* the click event is dispatched to its listeners before click() returns.
SyntheticClick(e) ==
    [checked |-> CheckedAfterClick(e), disabled |-> DisabledAfterClick(e),
     fault |-> ClickFault(e)]

\* --------------------------------------------- the DOMContentLoaded listener

\* Mutant of InitStep: line 22 assigns submitButton.disabled =
\* !radioButton.checked, so the last input decides.
InitStepAssign(rb, st) ==
    IF st.fault THEN st
    ELSE IF checked[rb] /\ ~submitPresent
    THEN [st EXCEPT !.fault = TRUE]
    ELSE [st EXCEPT
            !.disabled = ~checked[rb],
            !.listeners = @ \cup {rb}]

\* Mutant of InitStep: the listener is attached to the inputs of the
\* 'assessment' group only.
InitStepAssessmentOnly(rb, st) ==
    IF st.fault THEN st
    ELSE IF checked[rb] /\ ~submitPresent
    THEN [st EXCEPT !.fault = TRUE]
    ELSE [st EXCEPT
            !.disabled = IF checked[rb] THEN FALSE ELSE @,
            !.listeners = IF name[rb] = "assessment" THEN @ \cup {rb} ELSE @]

\* Mutant of InitStep: line 22 runs whether or not the input is checked.
InitStepAlways(rb, st) ==
    IF st.fault THEN st
    ELSE IF ~submitPresent
    THEN [st EXCEPT !.fault = TRUE]
    ELSE [st EXCEPT
            !.disabled = FALSE,
            !.listeners = @ \cup {rb}]


\* One iteration of the loop of lines 20-27 for radioButton rb, on the loop
\* state st; a TypeError on line 22 (submitButton is null) ends the loop.
InitStep(rb, st) ==
    IF st.fault THEN st
    ELSE IF checked[rb] /\ ~submitPresent
    THEN [st EXCEPT !.fault = TRUE]
    ELSE [st EXCEPT
            !.disabled = IF checked[rb] THEN FALSE ELSE @,
            !.listeners = @ \cup {rb}]

RECURSIVE InitLoop(_, _)
\* The loop of lines 20-27 over radioButtons, in document order.
InitLoop(radioButtons, st) ==
    IF radioButtons = <<>> THEN st
    ELSE InitLoop(Tail(radioButtons), InitStep(Head(radioButtons), st))

\* The DOMContentLoaded listener, lines 17-28; the event fires once.
InitHandler ==
    /\ ~loaded
    /\ LET radioButtons == doc
           st == InitLoop(radioButtons,
                          [disabled |-> disabled, listeners |-> clickListeners,
                           fault |-> FALSE])
       IN  /\ disabled' = st.disabled
           /\ clickListeners' = st.listeners
           /\ initChecked' = (\E i \in DOMAIN doc : checked[doc[i]])
           /\ last' = [ev |-> "init", key |-> <<>>, calls |-> <<>>,
                       fault |-> st.fault, before |-> disabled,
                       repeat |-> FALSE]
    /\ loaded' = TRUE
    /\ UNCHANGED <<doc, name, checked, submitPresent, inputButtonsLength,
                   inputButtonsHalfLength, focused, log, mutations,
                   clickedSinceInit, registered>>

\* ----------------------------------------------------- the keydown listener

\* Line 39.
ArrowDownBranch(keyName) == keyName = ArrowDown /\ inputButtonsLength > 0

\* Mutant of ArrowLeftBranch: the gate of ArrowDown.
ArrowLeftBranchGate0(keyName) == keyName = ArrowLeft /\ inputButtonsLength > 0

\* Line 44.
ArrowLeftBranch(keyName) == keyName = ArrowLeft /\ inputButtonsLength > 1

\* Line 49.
ArrowRightBranch(keyName) == keyName = ArrowRight /\ inputButtonsLength > 2

ArrowBranch(keyName) ==
    ArrowDownBranch(keyName) \/ ArrowLeftBranch(keyName)
        \/ ArrowRightBranch(keyName)

\* parseInt on every key pressed.
ParsedKeys == [k \in Keys |-> parseInt(k)]

\* Line 56.
keyNumberValue(keyName) == ParsedKeys[keyName]

\* Mutant of DigitBranch: the range check reads the length captured on
\* line 31.
DigitBranchCaptured(keyName) ==
    /\ ~ArrowBranch(keyName)
    /\ Gt(keyNumberValue(keyName), 0)
    /\ Le(keyNumberValue(keyName), inputButtonsLength)

\* Mutant of DigitBranch: the upper limit is exclusive.
DigitBranchExclusive(keyName) ==
    /\ ~ArrowBranch(keyName)
    /\ Gt(keyNumberValue(keyName), 0)
    /\ Le(keyNumberValue(keyName), Len(inputButtons) - 1)

\* Line 57, reached when no arrow branch was taken; inputButtons.length is
\* read from the live collection.
DigitBranch(keyName) ==
    /\ ~ArrowBranch(keyName)
    /\ Gt(keyNumberValue(keyName), 0)
    /\ Le(keyNumberValue(keyName), Len(inputButtons))

\* Some branch selects a target.
Selected(keyName) == ArrowBranch(keyName) \/ DigitBranch(keyName)

\* The 0-based index the selecting branch reads (lines 40, 45, 50, 58).
Index(keyName) ==
    IF ArrowDownBranch(keyName) THEN inputButtonsHalfLength
    ELSE IF ArrowLeftBranch(keyName) THEN inputButtonsHalfLength - 1
    ELSE IF ArrowRightBranch(keyName) THEN inputButtonsHalfLength + 1
    ELSE keyNumberValue(keyName).val - 1

\* Mutant of Calls: the element is clicked before it is focused.
CallsClickFirst(el) == << <<"click", el>>, <<"focus", el>> >>

\* The calls made on the selected element, in order (lines 41-42, 46-47,
\* 51-52, 59-60).
Calls(el) == << <<"focus", el>>, <<"click", el>> >>

\* The keydown listener, lines 36-66, for one keydown event.
KeyDown(keyName) ==
    LET sel == Selected(keyName)
        el == IF sel THEN Item(Index(keyName)) ELSE undefined
        \* el.focus() on undefined: a TypeError
        typeError == sel /\ el = undefined
        inTry == ~ArrowBranch(keyName)
        ok == sel /\ el # undefined
        clicked == SyntheticClick(el)
    IN  /\ focused' = IF ok THEN el ELSE focused
        /\ checked' = IF ok THEN clicked.checked ELSE checked
        /\ disabled' = IF ok THEN clicked.disabled ELSE disabled
        /\ log' = IF typeError /\ inTry THEN 1 ELSE log
        /\ clickedSinceInit' = (clickedSinceInit \/ (loaded /\ ok))
        /\ last' = [ev |-> "keydown", key |-> keyName,
                    calls |-> IF ok THEN Calls(el) ELSE <<>>,
                    fault |-> (typeError /\ ~inTry) \/ (ok /\ clicked.fault),
                    before |-> disabled,
                    repeat |-> last.ev = "keydown" /\ last.key = keyName]
        /\ UNCHANGED <<doc, name, clickListeners, submitPresent, loaded,
                       inputButtonsLength, inputButtonsHalfLength, mutations,
                       initChecked, registered>>

\* ------------------------------------------------------------ user's clicks

\* The user clicks input e of the document: the element is activated and its
\* click listeners run.  Whether a click moves focus depends on the browser.
UserClick(e) ==
    /\ \E i \in DOMAIN doc : doc[i] = e
    /\ focused' \in {focused, e}
    /\ checked' = CheckedAfterClick(e)
    /\ disabled' = DisabledAfterClick(e)
    /\ clickedSinceInit' = (clickedSinceInit \/ loaded)
    /\ last' = [ev |-> "click", key |-> <<>>, calls |-> <<>>,
                fault |-> ClickFault(e), before |-> disabled,
                repeat |-> FALSE]
    /\ UNCHANGED <<doc, name, clickListeners, submitPresent, loaded,
                   inputButtonsLength, inputButtonsHalfLength, log, mutations,
                   initChecked, registered>>

\* ------------------------------------------------------------ DOM mutations

\* s with x inserted so that it becomes element number i.
InsertAt(s, i, x) == SubSeq(s, 1, i - 1) \o <<x>> \o SubSeq(s, i, Len(s))

RECURSIVE Without(_, _)
\* s without x.
Without(s, x) ==
    IF s = <<>> THEN <<>>
    ELSE IF Head(s) = x THEN Without(Tail(s), x)
    ELSE <<Head(s)>> \o Without(Tail(s), x)

InDoc(e) == \E i \in DOMAIN doc : doc[i] = e

\* An element that is not in the document.
NewElem == CHOOSE e \in Elems : ~InDoc(e) /\ \A x \in Elems : ~InDoc(x) => e <= x

\* Another script inserts a new, unchecked input named 'assessment' as
\* element number i of the document.
InsertInput(i) ==
    /\ mutations < MaxMutations
    /\ Len(doc) < MaxInputs
    /\ i \in 1..(Len(doc) + 1)
    /\ doc' = InsertAt(doc, i, NewElem)
    /\ name' = [name EXCEPT ![NewElem] = "assessment"]
    /\ mutations' = mutations + 1
    /\ last' = [ev |-> "mutation", key |-> <<>>, calls |-> <<>>,
                fault |-> FALSE, before |-> disabled, repeat |-> FALSE]
    /\ UNCHANGED <<checked, clickListeners, submitPresent, disabled, loaded,
                   inputButtonsLength, inputButtonsHalfLength, focused, log,
                   initChecked, clickedSinceInit, registered>>

\* Another script removes input e from the document; the element is gone
\* for good.
RemoveInput(e) ==
    /\ mutations < MaxMutations
    /\ InDoc(e)
    /\ doc' = Without(doc, e)
    /\ name' = [name EXCEPT ![e] = "other"]
    /\ checked' = [checked EXCEPT ![e] = FALSE]
    /\ clickListeners' = clickListeners \ {e}
    /\ focused' = IF focused = e THEN undefined ELSE focused
    /\ mutations' = mutations + 1
    /\ last' = [ev |-> "mutation", key |-> <<>>, calls |-> <<>>,
                fault |-> FALSE, before |-> disabled, repeat |-> FALSE]
    /\ UNCHANGED <<submitPresent, disabled, loaded, inputButtonsLength,
                   inputButtonsHalfLength, log, initChecked, clickedSinceInit, registered>>

\* ---------------------------------------------------------- specifications

\* The documents the script may be evaluated in: n inputs, at most MaxOther
\* of them outside the 'assessment' group, at most one radio of the group
\* pre-checked, the submit button (when there is one) rendered disabled.
Init ==
    /\ \E n \in 0..MaxInputs : doc = [i \in 1..n |-> i]
    /\ name \in [Elems -> Names]
    /\ \A e \in Elems : e > Len(doc) => name[e] = "other"
    /\ Cardinality({e \in 1..Len(doc) : name[e] = "other"}) <= MaxOther
    /\ checked \in [Elems -> BOOLEAN]
    /\ \A e \in Elems : e > Len(doc) => ~checked[e]
    /\ Cardinality({e \in Elems : name[e] = "assessment" /\ checked[e]}) <= 1
    /\ clickListeners = {}
    /\ submitPresent \in BOOLEAN
    /\ disabled = TRUE
    /\ loaded = FALSE
    /\ inputButtonsLength = Len(inputButtons)
    /\ inputButtonsHalfLength = Floor2(Len(inputButtons))
    /\ focused = undefined
    /\ log = 0
    /\ mutations = 0
    /\ initChecked = FALSE
    /\ clickedSinceInit = FALSE
    /\ registered = inputButtons
    /\ last = [ev |-> "none", key |-> <<>>, calls |-> <<>>, fault |-> FALSE,
               before |-> TRUE, repeat |-> FALSE]

\* The events of a page whose inputs exist before the script runs and are
\* never added to or removed from.
Next ==
    \/ InitHandler
    \/ \E keyName \in Keys : KeyDown(keyName)
    \/ \E e \in Elems : UserClick(e)

Spec == Init /\ [][Next]_vars

\* The same events on a page that other scripts mutate.
NextDyn ==
    \/ InitHandler
    \/ \E keyName \in Keys : KeyDown(keyName)
    \/ \E e \in Elems : UserClick(e)
    \/ \E i \in 1..MaxInputs : InsertInput(i)
    \/ \E e \in Elems : RemoveInput(e)

\* The documents of Init that hold a submit button and only inputs of the
\* 'assessment' group, none of them pre-checked.
InitDyn ==
    /\ Init
    /\ submitPresent
    /\ \A e \in Elems : InDoc(e) => name[e] = "assessment" /\ ~checked[e]

SpecDyn == InitDyn /\ [][NextDyn]_vars

\* ------------------------------------------------------------------ claims

\* The last event was a keydown.
AfterKeyDown == last.ev = "keydown"

\* The element the last keydown focused and clicked.
Activated == last.calls[1][2]

\* C1: once submitButton.disabled is false, no initialization, click or
\* keydown event, in any order, sets it back to true.
C1_Monotonic == [][~disabled => ~disabled']_vars

\* C1's case: the button was enabled already when a click or a keydown was
\* handled, DOMContentLoaded having been dispatched.
C1_Witness ==
    /\ submitPresent /\ loaded
    /\ last.ev \in {"click", "keydown"}
    /\ ~last.before
    /\ ~disabled

\* C2 as stated: after any click on any input of the page has been handled,
\* the submit button is enabled.
C2_Original == (last.ev = "click" /\ submitPresent) => ~disabled

\* C2 amended: after a click on any input of the page, of the 'assessment'
\* group or not, dispatched once the DOMContentLoaded listener has run, the
\* submit button is enabled.
C2_Amended == (last.ev = "click" /\ submitPresent /\ loaded) => ~disabled

\* C2's case: a click after DOMContentLoaded enabled a button that was
\* disabled, in a document that holds an input outside the group.
C2_Witness ==
    /\ last.ev = "click" /\ submitPresent /\ loaded
    /\ last.before
    /\ ~disabled
    /\ \E i \in DOMAIN doc : name[doc[i]] = "other"

\* C3: if some input is checked when the DOMContentLoaded listener runs, the
\* submit button is enabled right after the listener, however many inputs
\* are checked and wherever they stand.
C3_PreChecked == (last.ev = "init" /\ submitPresent /\ initChecked) => ~disabled

\* C3's case: the listener has run on a document with two checked inputs
\* whose last input is unchecked.
C3_Witness ==
    /\ last.ev = "init" /\ submitPresent
    /\ Cardinality({i \in DOMAIN doc : checked[doc[i]]}) >= 2
    /\ Len(doc) >= 3
    /\ ~checked[doc[Len(doc)]]
    /\ ~disabled

\* C4: with no input checked when the DOMContentLoaded listener ran and no
\* click dispatched since, the submit button is disabled.
C4_StartsDisabled ==
    (submitPresent /\ loaded /\ ~initChecked /\ ~clickedSinceInit) => disabled

\* C4's case: the listener has run on a document with radio inputs none of
\* which was checked, and no input has been clicked.
C4_Witness ==
    /\ submitPresent /\ loaded /\ ~initChecked /\ ~clickedSinceInit
    /\ Len(inputButtons) >= 2
    /\ last.ev = "init"
    /\ disabled

\* The index C5 gives for an arrow key on a group of n inputs, -1 for none.
C5_Expected(key, n) ==
    LET half == n \div 2
    IN  IF key = ArrowDown /\ n > 0 THEN half
        ELSE IF key = ArrowLeft /\ n > 1 THEN half - 1
        ELSE IF key = ArrowRight /\ n > 2 THEN half + 1
        ELSE -1

\* C5: on a group of n inputs an arrow key focuses and clicks exactly the
\* element at index half (ArrowDown, n > 0), half - 1 (ArrowLeft, n > 1) or
\* half + 1 (ArrowRight, n > 2), and nothing when its gate fails.
C5_Arrows ==
    (AfterKeyDown /\ last.key \in ArrowKeys) =>
        LET x == C5_Expected(last.key, Len(inputButtons))
        IN  IF x >= 0
            THEN /\ last.calls = << <<"focus", inputButtons[x + 1]>>,
                                    <<"click", inputButtons[x + 1]>> >>
                 /\ focused = inputButtons[x + 1]
                 /\ checked[inputButtons[x + 1]]
            ELSE last.calls = <<>>

\* C5's case: ArrowRight on a group of three inputs has activated index 2.
C5_Witness ==
    /\ AfterKeyDown /\ last.key = ArrowRight
    /\ Len(inputButtons) = 3
    /\ last.calls # <<>>
    /\ Activated = inputButtons[3]

\* C6: a key that parses as the integer N focuses and clicks the element at
\* index N - 1 of a group of n inputs when 0 < N <= n, and nothing otherwise.
C6_Digits ==
    (AfterKeyDown /\ last.key \in DigitKeys) =>
        LET N == DigitValue(last.key[1])
        IN  IF 0 < N /\ N <= Len(inputButtons)
            THEN /\ last.calls = << <<"focus", inputButtons[N]>>,
                                    <<"click", inputButtons[N]>> >>
                 /\ focused = inputButtons[N]
                 /\ checked[inputButtons[N]]
            ELSE last.calls = <<>>

\* C6's case: the digit equal to the group's size has activated the last
\* element of the group.
C6_Witness ==
    /\ AfterKeyDown /\ last.key \in DigitKeys
    /\ Len(inputButtons) >= 2
    /\ DigitValue(last.key[1]) = Len(inputButtons)
    /\ last.calls # <<>>
    /\ Activated = inputButtons[Len(inputButtons)]

\* C7: a key that is neither an arrow key nor numeric focuses nothing,
\* clicks nothing, leaves submitButton.disabled as it was and raises no
\* uncaught fault.
C7_OtherKeys ==
    (AfterKeyDown /\ last.key \notin ArrowKeys /\ last.key \notin DigitKeys) =>
        /\ last.calls = <<>>
        /\ ~last.fault
        /\ disabled = last.before

\* C7's case: "F2" has been handled on a loaded page whose group holds two
\* inputs or more, the submit button still disabled.
C7_Witness ==
    /\ AfterKeyDown /\ last.key = F2
    /\ loaded /\ submitPresent
    /\ Len(inputButtons) >= 2
    /\ disabled

\* C8: when a keydown selects an element that holds the click listener of the
\* DOMContentLoaded listener, that listener has run when the keydown listener
\* returns: the submit button is enabled in the state the keydown leaves.
C8_Synchronous ==
    (AfterKeyDown /\ last.calls # <<>> /\ submitPresent
        /\ Activated \in clickListeners) => ~disabled

\* C8's case: a keydown has activated an element that holds the listener
\* while the submit button was disabled.
C8_Witness ==
    /\ AfterKeyDown /\ last.calls # <<>> /\ submitPresent
    /\ Activated \in clickListeners
    /\ last.before
    /\ ~disabled

\* The index C9 as stated gives: every gate and the digit range check read
\* the length captured when the listener was registered.
C9_CapturedIndex(key) ==
    LET n == Len(registered)
        half == n \div 2
        N == IF key \in DigitKeys THEN DigitValue(key[1]) ELSE 0
    IN  IF key = ArrowDown /\ n > 0 THEN half
        ELSE IF key = ArrowLeft /\ n > 1 THEN half - 1
        ELSE IF key = ArrowRight /\ n > 2 THEN half + 1
        ELSE IF 0 < N /\ N <= n THEN N - 1
        ELSE -1

\* C9 as stated: whatever is added to or removed from the group after the
\* listener was registered, every branch of the dispatch uses the length and
\* the ordering captured at registration.
C9_Original ==
    AfterKeyDown =>
        LET x == C9_CapturedIndex(last.key)
        IN  last.calls = IF x >= 0
                         THEN << <<"focus", registered[x + 1]>>,
                                 <<"click", registered[x + 1]>> >>
                         ELSE <<>>

\* The index the code reads: the arrow gates and half come from the length
\* captured at registration, the digit range check from the current length.
C9_LiveIndex(key) ==
    LET n == Len(registered)
        half == n \div 2
        N == IF key \in DigitKeys THEN DigitValue(key[1]) ELSE 0
    IN  IF key = ArrowDown /\ n > 0 THEN half
        ELSE IF key = ArrowLeft /\ n > 1 THEN half - 1
        ELSE IF key = ArrowRight /\ n > 2 THEN half + 1
        ELSE IF 0 < N /\ N <= Len(inputButtons) THEN N - 1
        ELSE -1

\* C9 amended: the length read by the three arrow gates and half are captured
\* when the listener is registered and are not re-queried; the collection is
\* live, so the digit range check reads the current length and every branch
\* looks its element up in the current ordering of the group (an arrow key
\* whose index lies past the current end activates nothing).
C9_Amended ==
    /\ inputButtonsLength = Len(registered)
    /\ inputButtonsHalfLength = Len(registered) \div 2
    /\ AfterKeyDown =>
        LET x == C9_LiveIndex(last.key)
        IN  last.calls = IF x >= 0 /\ x < Len(inputButtons)
                         THEN << <<"focus", inputButtons[x + 1]>>,
                                 <<"click", inputButtons[x + 1]>> >>
                         ELSE <<>>

\* C9's case: after an input was added to the group, the digit one past the
\* captured length has activated the new last element.
C9_Witness ==
    /\ mutations > 0
    /\ AfterKeyDown /\ last.key \in DigitKeys
    /\ DigitValue(last.key[1]) > Len(registered)
    /\ DigitValue(last.key[1]) = Len(inputButtons)
    /\ last.calls # <<>>
    /\ Activated = inputButtons[Len(inputButtons)]

\* C10: a keydown that selects an element calls focus() on it first and
\* click() on the same element second.
C10_FocusThenClick ==
    (AfterKeyDown /\ last.calls # <<>>) =>
        /\ Len(last.calls) = 2
        /\ last.calls[1][1] = "focus"
        /\ last.calls[2][1] = "click"
        /\ last.calls[1][2] = last.calls[2][2]
        /\ focused = last.calls[2][2]

\* C10's case: ArrowLeft has selected an element.
C10_Witness ==
    /\ AfterKeyDown /\ last.key = ArrowLeft
    /\ last.calls # <<>>

\* C11 as stated: a keydown whose key is no arrow key and does not parse as
\* an integer leaves an entry in the diagnostic log.
C11_Logged ==
    (AfterKeyDown /\ last.key \notin ArrowKeys /\ last.key \notin DigitKeys) =>
        log >= 1

\* C12 as stated: without a submit element the DOMContentLoaded listener
\* raises no fault and attaches the click listener to every input, and later
\* clicks raise no fault.
C12_FailsSilently ==
    ~submitPresent =>
        /\ last.ev = "init" =>
            /\ ~last.fault
            /\ clickListeners = {doc[i] : i \in DOMAIN doc}
        /\ (last.ev = "click" /\ loaded) => ~last.fault

\* C13: whatever the size n of the group and whatever the key, the index a
\* keydown selects lies in 0..n-1, so the element it reads exists and is the
\* one focused and clicked.
C13_IndexInRange ==
    /\ \A k \in Keys :
        Selected(k) => Index(k) \in 0..(Len(inputButtons) - 1)
    /\ (AfterKeyDown /\ Selected(last.key)) =>
        /\ last.calls # <<>>
        /\ Activated = inputButtons[Index(last.key) + 1]

\* C13's case: ArrowRight on a group of four inputs has read the last index.
C13_Witness ==
    /\ AfterKeyDown /\ last.key = ArrowRight
    /\ Len(inputButtons) = 4
    /\ last.calls # <<>>
    /\ Activated = inputButtons[4]

\* The number of calls of operation op in the sequence calls.
CountCalls(calls, op) == Cardinality({i \in DOMAIN calls : calls[i][1] = op})

\* C14: a keydown makes at most one focus call and at most one click call,
\* and an arrow key whose length gate fails activates nothing.
C14_Exclusive ==
    AfterKeyDown =>
        /\ CountCalls(last.calls, "focus") <= 1
        /\ CountCalls(last.calls, "click") <= 1
        /\ (last.key \in ArrowKeys
              /\ C5_Expected(last.key, Len(inputButtons)) < 0) =>
                last.calls = <<>>

\* C14's case: ArrowLeft on a group of one input, whose gate fails.
C14_Witness ==
    /\ AfterKeyDown /\ last.key = ArrowLeft
    /\ Len(inputButtons) = 1
    /\ loaded
    /\ last.calls = <<>>

\* C15: a keydown of the key of the keydown dispatched right before it selects
\* the same target and leaves submitButton.disabled, the focused element and
\* the checked states as they were.
C15_Idempotent ==
    [][(AfterKeyDown /\ last'.ev = "keydown" /\ last'.key = last.key) =>
        /\ last'.calls = last.calls
        /\ disabled' = disabled
        /\ focused' = focused
        /\ checked' = checked]_vars

\* C15's case: the same key has been pressed twice in a row on a loaded page
\* and has selected an element.
C15_Witness ==
    /\ AfterKeyDown /\ last.repeat
    /\ loaded /\ submitPresent
    /\ last.calls # <<>>
    /\ ~disabled

\* C16: the submit button is enabled only if the DOMContentLoaded listener
\* has run and either some input was checked when it ran or an input has
\* been clicked since; a keydown that activates an input before the listener
\* has run leaves the button disabled.
C16_EnabledOnlyAfterInit ==
    ~disabled => (loaded /\ (initChecked \/ clickedSinceInit))

\* C16's case: a keydown has activated an input of the group before
\* DOMContentLoaded was dispatched, and the button is disabled.
C16_Witness ==
    /\ ~loaded /\ submitPresent
    /\ AfterKeyDown /\ last.calls # <<>>
    /\ checked[Activated]
    /\ disabled

====
